---- MODULE Spec2Model ----
(***************************************************************************)
(* State machine of the App component (src/App.tsx): the session           *)
(* collection, the current session id, the loading flag, the translation   *)
(* requests in flight, the settings, the speech recognition that is        *)
(* listening, and the values stored under the sessions key and the         *)
(* settings key of localStorage.                                           *)
(*                                                                         *)
(* Strings are sequences of UTF-16 code units, as in JavaScript, so that   *)
(* length, substring, trim and the Urdu-script test are computed as the    *)
(* code computes them.  Date.now() is the variable now: a wall clock with  *)
(* millisecond resolution, which need not advance between two events.      *)
(* Every handler reads the clock once.                                     *)
(***************************************************************************)
EXTENDS Integers, Sequences, FiniteSets, TLC

VARIABLES
    sessions,          \* useState<ChatSession[]>            (App.tsx:16)
    currentSessionId,  \* useState<string>                   (App.tsx:17)
    isLoading,         \* useState(false)                    (App.tsx:21)
    inflight,          \* handleSendMessage calls suspended at the await (App.tsx:132)
                       \* each with the text and the currentSessionId of its closure,
                       \* and a history flag: were the sessions it targeted removed since
    stored,            \* localStorage[SESSIONS_STORAGE_KEY]  (App.tsx:13)
    mounted,           \* have the mount effects run          (App.tsx:31-58)
    now,               \* the clock read by Date.now()
    lastEvent,         \* the handler that ran last, with its arguments and its speak calls
    settings,          \* useState<Settings>(DEFAULT_SETTINGS)  (App.tsx:18)
    storedSettings,    \* localStorage[SETTINGS_STORAGE_KEY]     (App.tsx:33)
    listening          \* the callback startListening was given, as the closure of the
                       \* handleSendMessage it is; Undefined when not listening (App.tsx:241)

vars == <<sessions, currentSessionId, isLoading, inflight, stored, mounted, now, lastEvent,
          settings, storedSettings, listening>>

----------------------------------------------------------------------------
(* Bounds of the exploration *)

MaxClock == 1

MaxSessions == 2

MaxMsgs == 4

MaxInflight == 2

----------------------------------------------------------------------------
(* String literals of the program, as code units *)

\* 'New Conversation'
NewConversation == <<78, 101, 119, 32, 67, 111, 110, 118, 101, 114, 115, 97, 116, 105, 111, 110>>

\* "..."
Ellipsis == <<46, 46, 46>>

\* "Error processing request. Please check your internet connection."
FallbackText == <<69, 114, 114, 111, 114, 32, 112, 114, 111, 99, 101, 115, 115, 105, 110, 103, 32, 114, 101, 113, 117, 101, 115, 116, 46, 32, 80, 108, 101, 97, 115, 101, 32, 99, 104, 101, 99, 107, 32, 121, 111, 117, 114, 32, 105, 110, 116, 101, 114, 110, 101, 116, 32, 99, 111, 110, 110, 101, 99, 116, 105, 111, 110, 46>>

TitleMax == 30

USER == "user"

AI == "ai"

\* an optional string is the empty set (undefined) or a singleton
Undefined == {}

Some(t) == {t}

----------------------------------------------------------------------------
(* Inputs *)

\* "abcdefghijklmnopqrstuvwxyz0123", 30 code units
Text30 == <<97, 98, 99, 100, 101, 102, 103, 104, 105, 106, 107, 108, 109, 110, 111, 112, 113, 114, 115, 116, 117, 118, 119, 120, 121, 122, 48, 49, 50, 51>>

\* "abcdefghijklmnopqrstuvwxyz01234", 31 code units
Text31 == <<97, 98, 99, 100, 101, 102, 103, 104, 105, 106, 107, 108, 109, 110, 111, 112, 113, 114, 115, 116, 117, 118, 119, 120, 121, 122, 48, 49, 50, 51, 52>>

\* " \t", whitespace only
BlankText == <<32, 9>>

\* the Urdu word salam, U+0633 U+0644 U+0627 U+0645
Salam == <<1587, 1604, 1575, 1605>>

\* "Hi"
Hi == <<72, 105>>

InputTexts == {Text30, Text31, BlankText}

Translations == {Salam, Hi}

----------------------------------------------------------------------------
(* String functions *)

\* the code units String.prototype.trim removes (WhiteSpace and LineTerminator)
WhiteSpace == {9, 10, 11, 12, 13, 32, 160, 5760, 8232, 8233, 8239, 8287, 12288, 65279} \cup (8192..8202)

RECURSIVE TrimStart(_)
TrimStart(s) == IF s # <<>> /\ Head(s) \in WhiteSpace THEN TrimStart(Tail(s)) ELSE s

RECURSIVE TrimEnd(_)
TrimEnd(s) == IF s # <<>> /\ s[Len(s)] \in WhiteSpace THEN TrimEnd(SubSeq(s, 1, Len(s) - 1)) ELSE s

Trim(s) == TrimEnd(TrimStart(s))

\* text.substring(0, n)
Substring0(s, n) == SubSeq(s, 1, IF n < Len(s) THEN n ELSE Len(s))

\* a derivation that also cuts a text of exactly 30 code units
DeriveTitleFrom30(text) ==
    IF Len(text) >= TitleMax THEN Substring0(text, TitleMax) \o Ellipsis ELSE text

\* text.length > 30 ? text.substring(0, 30) + "..." : text
DeriveTitle(text) == IF Len(text) > TitleMax THEN Substring0(text, TitleMax) \o Ellipsis ELSE text

----------------------------------------------------------------------------
(* Session store *)

NewSession(t) ==
    [id |-> ToString(t), title |-> NewConversation, messages |-> <<>>,
     createdAt |-> t, updatedAt |-> t]

\* an updater that puts the new session behind the others
PrependAtEnd(newSession, prev) == Append(prev, newSession)

\* [newSession, ...prev], the updater of createNewSession
Prepend(newSession, prev) == <<newSession>> \o prev

\* clearHistory without the setSessions([])
ClearResultKeeps(prev, t) == Prepend(NewSession(t), prev)

\* the collection clearHistory leaves: setSessions([]), then createNewSession
ClearResult(prev, t) == Prepend(NewSession(t), <<>>)

\* a message that does not keep the original text
NewMessageNoOriginal(text, sender, originalText, t) ==
    [id |-> ToString(t), text |-> text, originalText |-> Undefined,
     sender |-> sender, timestamp |-> t]

NewMessage(text, sender, originalText, t) ==
    [id |-> ToString(t), text |-> text, originalText |-> originalText,
     sender |-> sender, timestamp |-> t]

\* a callback that puts the new message in front of the earlier ones
AppendToFront(session, text, sender, originalText, t) ==
    [session EXCEPT
        !.messages = <<NewMessage(text, sender, originalText, t)>> \o session.messages,
        !.title = IF Len(session.messages) = 0 /\ sender = USER
                  THEN DeriveTitle(text) ELSE session.title,
        !.updatedAt = t]

\* the map callback of addMessageToCurrentSession
AppendTo(session, text, sender, originalText, t) ==
    [session EXCEPT
        !.messages = Append(session.messages, NewMessage(text, sender, originalText, t)),
        !.title = IF Len(session.messages) = 0 /\ sender = USER
                  THEN DeriveTitle(text) ELSE session.title,
        !.updatedAt = t]

\* an updater that appends to every session
AddMessageEverywhere(prev, target, text, sender, originalText, t) ==
    [i \in 1..Len(prev) |-> AppendTo(prev[i], text, sender, originalText, t)]

\* the updater of addMessageToCurrentSession, with the currentSessionId of its closure
AddMessage(prev, target, text, sender, originalText, t) ==
    [i \in 1..Len(prev) |->
        IF prev[i].id = target THEN AppendTo(prev[i], text, sender, originalText, t)
        ELSE prev[i]]

\* a filter that drops the first session, whatever its id
RemainingByPosition(prev, id) == Tail(prev)

\* prev.filter(s => s.id !== id)
Remaining(prev, id) == SelectSeq(prev, LAMBDA s: s.id # id)

\* deleteSession without the branch that creates a session when none remain
DeleteResultNoFresh(prev, id, cur, t) == Remaining(prev, id)

\* the value the updater of deleteSession returns
DeleteResult(prev, id, cur, t) ==
    IF cur = id /\ Len(Remaining(prev, id)) = 0 THEN <<NewSession(t)>>
    ELSE Remaining(prev, id)

\* deleteSession without the setCurrentSessionId(remaining[0].id)
DeleteCurrentKept(prev, id, cur, t) ==
    IF cur = id /\ Len(Remaining(prev, id)) = 0 THEN ToString(t) ELSE cur

\* the currentSessionId the updater of deleteSession leaves
DeleteCurrent(prev, id, cur, t) ==
    IF cur = id
    THEN IF Len(Remaining(prev, id)) > 0 THEN Remaining(prev, id)[1].id ELSE ToString(t)
    ELSE cur

----------------------------------------------------------------------------
(* Persistence: JSON.stringify drops the properties whose value is undefined *)

Absent == [kind |-> "absent"]

Corrupt == [kind |-> "corrupt"]

\* message.originalText, undefined when the property is missing
OriginalText(m) == IF "originalText" \in DOMAIN m THEN m.originalText ELSE Undefined

StringifyMessage(m) ==
    IF OriginalText(m) = Undefined
    THEN [id |-> m.id, text |-> m.text, sender |-> m.sender, timestamp |-> m.timestamp]
    ELSE m

StringifySession(s) ==
    [s EXCEPT !.messages = [i \in 1..Len(s.messages) |-> StringifyMessage(s.messages[i])]]

\* a write of the first session only
StringifyFirstOnly(ss) ==
    [kind |-> "json",
     value |-> [i \in 1..(IF Len(ss) > 0 THEN 1 ELSE 0) |-> StringifySession(ss[i])]]

Stringify(ss) == [kind |-> "json", value |-> [i \in 1..Len(ss) |-> StringifySession(ss[i])]]

SessionIds(ss) == {ss[i].id : i \in 1..Len(ss)}

----------------------------------------------------------------------------
(* Settings: an object is a function from its property names *)

DEFAULT_SETTINGS ==
    [darkMode |-> FALSE, voiceEnabled |-> TRUE, preferredVoice |-> "en-US",
     animationsEnabled |-> TRUE]

\* the values of the type Settings
SettingsValues ==
    [darkMode : BOOLEAN, voiceEnabled : BOOLEAN, preferredVoice : {"en-US", "ur-PK"},
     animationsEnabled : BOOLEAN]

\* the object with the properties names of the object o
Pick(o, names) == [k \in names |-> o[k]]

\* the objects with some of the properties of a Settings value
PartialSettings == {Pick(o, names) : o \in SettingsValues, names \in SUBSET DOMAIN DEFAULT_SETTINGS}

\* { ...a, ...b }
Spread(a, b) == [k \in DOMAIN a \cup DOMAIN b |-> IF k \in DOMAIN b THEN b[k] ELSE a[k]]

\* JSON.stringify(settings)
StringifySettings(o) == [kind |-> "json", value |-> o]

\* what the settings key may hold when the page is opened
SettingsBlobs == {Absent, Corrupt} \cup {StringifySettings(o) : o \in PartialSettings}

\* a load in which the defaults overwrite the saved properties
LoadedSettingsDefaultsLast(saved) ==
    IF saved.kind = "json" THEN Spread(saved.value, DEFAULT_SETTINGS) ELSE DEFAULT_SETTINGS

\* the settings after the initial data load effect: the state stays
\* DEFAULT_SETTINGS when the key is absent or JSON.parse throws
LoadedSettings(saved) ==
    IF saved.kind = "json" THEN Spread(DEFAULT_SETTINGS, saved.value) ELSE DEFAULT_SETTINGS

\* the partial settings the settings modal passes to updateSettings
SettingsUpdates == {Pick(o, {k}) : o \in SettingsValues, k \in DOMAIN DEFAULT_SETTINGS}

----------------------------------------------------------------------------
(* Speech *)

\* /[\u0600-\u06FF]/
UrduScript == 1536..1791

\* the regular expression finds a code unit of the text
IsUrdu(text) == \E k \in 1..Len(text) : text[k] \in UrduScript

\* the calls of speak made after a translation, by a call whose closure
\* holds settings.voiceEnabled = voiceEnabled
SpeakCalls(voiceEnabled, translated) ==
    IF voiceEnabled
    THEN <<[text |-> translated, lang |-> IF IsUrdu(translated) THEN "ur-PK" ELSE "en-US"]>>
    ELSE <<>>

----------------------------------------------------------------------------
Init ==
    /\ sessions = <<>>
    /\ currentSessionId = ""
    /\ isLoading = FALSE
    /\ inflight = <<>>
    /\ stored \in {Absent, Corrupt, Stringify(<<>>)}
    /\ mounted = FALSE
    /\ now = 0
    /\ lastEvent = [op |-> "construct"]
    /\ settings = DEFAULT_SETTINGS
    /\ storedSettings = Absent
    /\ listening = Undefined

\* the clock advances by a millisecond
Tick ==
    /\ now < MaxClock
    /\ now' = now + 1
    /\ UNCHANGED <<sessions, currentSessionId, isLoading, inflight, stored, mounted, lastEvent, settings, storedSettings, listening>>

\* a load that restores the saved sessions only when there are several
LoadedSessionsIfSeveral(saved, t) ==
    IF saved.kind = "json" /\ Len(saved.value) > 1 THEN saved.value ELSE <<NewSession(t)>>

\* the sessions the initial data load effect sets
LoadedSessions(saved, t) ==
    IF saved.kind = "json" /\ Len(saved.value) > 0 THEN saved.value ELSE <<NewSession(t)>>

\* the mount effects: initial data load, then the persistence effects
Mount ==
    /\ ~mounted
    /\ mounted' = TRUE
    /\ settings' = LoadedSettings(storedSettings)
    /\ storedSettings' = StringifySettings(settings')
    /\ sessions' = LoadedSessions(stored, now)
    /\ currentSessionId' = sessions'[1].id
    /\ stored' = Stringify(sessions')
    /\ lastEvent' = [op |-> "mount", savedSettings |-> storedSettings]
    /\ UNCHANGED <<isLoading, inflight, now, listening>>

\* the page is reloaded: the component state is rebuilt, the storage stays
Reload ==
    /\ mounted
    /\ mounted' = FALSE
    /\ sessions' = <<>>
    /\ currentSessionId' = ""
    /\ isLoading' = FALSE
    /\ inflight' = <<>>
    /\ settings' = DEFAULT_SETTINGS
    /\ listening' = Undefined
    /\ lastEvent' = [op |-> "construct"]
    /\ UNCHANGED <<stored, storedSettings, now>>

\* updateSettings(ns), and the persistence effect of the render that follows
UpdateSettings(ns) ==
    /\ mounted
    /\ settings' = Spread(settings, ns)
    /\ storedSettings' = StringifySettings(settings')
    /\ lastEvent' = [op |-> "updateSettings", ns |-> ns]
    /\ UNCHANGED <<sessions, currentSessionId, isLoading, inflight, stored, mounted, now,
                   listening>>

CreateNewSession ==
    /\ mounted
    /\ Len(sessions) < MaxSessions
    /\ sessions' = Prepend(NewSession(now), sessions)
    /\ currentSessionId' = ToString(now)
    /\ stored' = Stringify(sessions')
    /\ lastEvent' = [op |-> "createNewSession"]
    /\ UNCHANGED <<isLoading, inflight, mounted, now, settings, storedSettings, listening>>

\* onSelectSession, with the id of a session the sidebar lists
SelectSession(id) ==
    /\ mounted
    /\ id \in SessionIds(sessions)
    /\ currentSessionId' = id
    /\ lastEvent' = [op |-> "selectSession"]
    /\ UNCHANGED <<sessions, isLoading, inflight, stored, mounted, now, settings, storedSettings, listening>>

\* history: the calls in flight whose target sessions have just been removed
MarkDeleted(calls, ids) ==
    [i \in 1..Len(calls) |->
        IF calls[i].target \in ids THEN [calls[i] EXCEPT !.targetDeleted = TRUE] ELSE calls[i]]

\* deleteSession, with the id of a session the sidebar lists, once
\* window.confirm has returned true (it does nothing otherwise)
DeleteSession(id) ==
    /\ mounted
    /\ id \in SessionIds(sessions)
    /\ sessions' = DeleteResult(sessions, id, currentSessionId, now)
    /\ currentSessionId' = DeleteCurrent(sessions, id, currentSessionId, now)
    /\ stored' = Stringify(sessions')
    /\ inflight' = MarkDeleted(inflight, {id})
    /\ lastEvent' = [op |-> "deleteSession", id |-> id, current |-> currentSessionId,
                     count |-> Len(sessions)]
    /\ UNCHANGED <<isLoading, mounted, now, settings, storedSettings, listening>>

\* clearHistory, once window.confirm has returned true: removeItem,
\* setSessions([]), createNewSession, and the persistence effect of the
\* render that follows
ClearHistory ==
    /\ mounted
    /\ sessions' = ClearResult(sessions, now)
    /\ currentSessionId' = ToString(now)
    /\ stored' = Stringify(sessions')
    /\ inflight' = MarkDeleted(inflight, SessionIds(sessions))
    /\ lastEvent' = [op |-> "clearHistory"]
    /\ UNCHANGED <<isLoading, mounted, now, settings, storedSettings, listening>>

\* the messages held by the collection
RECURSIVE TotalMessages(_)
TotalMessages(ss) == IF ss = <<>> THEN 0 ELSE Len(Head(ss).messages) + TotalMessages(Tail(ss))

\* a test that only finds the empty string blank
IsBlankOnlyEmpty(text) == text = <<>>

\* !text.trim()
IsBlank(text) == Trim(text) = <<>>

\* what the handleSendMessage of the current render closes over: the
\* currentSessionId its addMessageToCurrentSession compares with, and the
\* settings it reads voiceEnabled from
Closure == [target |-> currentSessionId, voiceEnabled |-> settings.voiceEnabled]

\* the body of a handleSendMessage with the closure c, up to the await
SendWith(text, c) ==
    IF IsBlank(text)
    THEN UNCHANGED <<sessions, isLoading, inflight, stored>>
    ELSE /\ Len(inflight) < MaxInflight
         /\ TotalMessages(sessions) + Len(inflight) + 2 <= MaxMsgs
         /\ sessions' = AddMessage(sessions, c.target, text, USER, Undefined, now)
         /\ isLoading' = TRUE
         /\ inflight' = Append(inflight, [text |-> text, target |-> c.target,
                                          voiceEnabled |-> c.voiceEnabled,
                                          targetDeleted |-> c.target \notin SessionIds(sessions)])
         /\ stored' = Stringify(sessions')

\* onSendMessage: the handleSendMessage of the current render, up to the await
HandleSendMessage(text) ==
    /\ mounted
    /\ SendWith(text, Closure)
    /\ lastEvent' = [op |-> "handleSendMessage", text |-> text]
    /\ UNCHANGED <<currentSessionId, mounted, now, settings, storedSettings, listening>>

\* onStartVoice: startListening is given the handleSendMessage of the
\* current render; a recognition that was listening is replaced
StartListening ==
    /\ mounted
    /\ listening' = Some(Closure)
    /\ lastEvent' = [op |-> "startListening"]
    /\ UNCHANGED <<sessions, currentSessionId, isLoading, inflight, stored, mounted, now,
                   settings, storedSettings>>

\* onStopVoice: the recognition is cancelled and its callback never called
StopListening ==
    /\ mounted
    /\ listening' = Undefined
    /\ lastEvent' = [op |-> "stopListening"]
    /\ UNCHANGED <<sessions, currentSessionId, isLoading, inflight, stored, mounted, now,
                   settings, storedSettings>>

\* the recognition finalizes: the callback it was given is called once with
\* the recognized text, and runs up to its await
SpeechResult(text) ==
    /\ mounted
    /\ \E c \in listening :
          /\ SendWith(text, c)
          /\ lastEvent' = [op |-> "speechResult", text |-> text, closure |-> c]
    /\ listening' = Undefined
    /\ UNCHANGED <<currentSessionId, mounted, now, settings, storedSettings>>

RemoveAt(seq, i) == SubSeq(seq, 1, i - 1) \o SubSeq(seq, i + 1, Len(seq))

\* translateText resolves with translated: the try block and finally
TranslationSucceeds(i, translated) ==
    /\ mounted
    /\ i \in 1..Len(inflight)
    /\ sessions' = AddMessage(sessions, inflight[i].target, translated, AI,
                              Some(inflight[i].text), now)
    /\ isLoading' = FALSE
    /\ inflight' = RemoveAt(inflight, i)
    /\ stored' = Stringify(sessions')
    /\ lastEvent' = [op |-> "translated", request |-> inflight[i], translated |-> translated,
                     spoken |-> SpeakCalls(inflight[i].voiceEnabled, translated)]
    /\ UNCHANGED <<currentSessionId, mounted, now, settings, storedSettings, listening>>

\* a handler without the finally block
TranslationFailsKeepsLoading(i) ==
    /\ mounted
    /\ i \in 1..Len(inflight)
    /\ sessions' = AddMessage(sessions, inflight[i].target, FallbackText, AI, Undefined, now)
    /\ inflight' = RemoveAt(inflight, i)
    /\ stored' = Stringify(sessions')
    /\ lastEvent' = [op |-> "translateFailed", request |-> inflight[i], spoken |-> <<>>]
    /\ UNCHANGED <<isLoading, currentSessionId, mounted, now, settings, storedSettings, listening>>

\* translateText rejects: the catch block and finally
TranslationFails(i) ==
    /\ mounted
    /\ i \in 1..Len(inflight)
    /\ sessions' = AddMessage(sessions, inflight[i].target, FallbackText, AI, Undefined, now)
    /\ isLoading' = FALSE
    /\ inflight' = RemoveAt(inflight, i)
    /\ stored' = Stringify(sessions')
    /\ lastEvent' = [op |-> "translateFailed", request |-> inflight[i], spoken |-> <<>>]
    /\ UNCHANGED <<currentSessionId, mounted, now, settings, storedSettings, listening>>

SessionIdInputs == {ToString(t) : t \in 0..MaxClock}

Next ==
    \/ Tick
    \/ Mount
    \/ Reload
    \/ CreateNewSession
    \/ \E id \in SessionIdInputs : SelectSession(id)
    \/ \E id \in SessionIdInputs : DeleteSession(id)
    \/ ClearHistory
    \/ \E text \in InputTexts : HandleSendMessage(text)
    \/ \E i \in 1..MaxInflight, translated \in Translations : TranslationSucceeds(i, translated)
    \/ \E i \in 1..MaxInflight : TranslationFails(i)

Spec == Init /\ [][Next]_vars

----------------------------------------------------------------------------
(* The settings, from whatever the settings key holds *)

InitSettings ==
    /\ sessions = <<>>
    /\ currentSessionId = ""
    /\ isLoading = FALSE
    /\ inflight = <<>>
    /\ stored \in {Absent, Stringify(<<>>)}
    /\ mounted = FALSE
    /\ now = 0
    /\ lastEvent = [op |-> "construct"]
    /\ settings = DEFAULT_SETTINGS
    /\ storedSettings \in SettingsBlobs
    /\ listening = Undefined

NextSettings ==
    \/ Mount
    \/ Reload
    \/ \E ns \in SettingsUpdates : UpdateSettings(ns)

SpecSettings == InitSettings /\ [][NextSettings]_vars

----------------------------------------------------------------------------
(* Voice output: sends, completions and the voiceEnabled toggle *)

\* translations on both sides of each end of the Urdu block
VoiceTranslations == {Salam, Hi, <<72, 1536>>, <<1791, 105>>, <<1535>>, <<1792>>}

NextVoice ==
    \/ Mount
    \/ Reload
    \/ \E b \in BOOLEAN : UpdateSettings([voiceEnabled |-> b])
    \/ \E text \in {Text30, BlankText} : HandleSendMessage(text)
    \/ \E i \in 1..MaxInflight, translated \in VoiceTranslations :
          TranslationSucceeds(i, translated)
    \/ \E i \in 1..MaxInflight : TranslationFails(i)

SpecVoice == Init /\ [][NextVoice]_vars

----------------------------------------------------------------------------
(* Voice input: the recognition result, among session switches *)

NextListen ==
    \/ Tick
    \/ Mount
    \/ CreateNewSession
    \/ \E id \in SessionIdInputs : SelectSession(id)
    \/ \E id \in SessionIdInputs : DeleteSession(id)
    \/ StartListening
    \/ StopListening
    \/ \E text \in {Text30, BlankText} : SpeechResult(text)
    \/ \E i \in 1..MaxInflight : TranslationSucceeds(i, Hi)
    \/ \E i \in 1..MaxInflight : TranslationFails(i)

SpecListen == Init /\ [][NextListen]_vars

----------------------------------------------------------------------------
(* Properties *)

\* a session as createNewSession and deleteSession make it
IsFresh(session) == session.messages = <<>> /\ session.title = NewConversation

DeletedSole == lastEvent.op = "deleteSession" /\ lastEvent.count = 1

\* C1: once the mount effects have run the session collection is never
\* empty, and after deleteSession has removed the only session the collection
\* holds exactly one session, which has no messages and the title
\* "New Conversation".
C1_NeverEmpty ==
    mounted =>
        /\ Len(sessions) >= 1
        /\ DeletedSole => Len(sessions) = 1 /\ IsFresh(sessions[1])

\* the only session, which had received a message, has been deleted
C1_Witness ==
    /\ mounted /\ DeletedSole
    /\ Len(sessions) = 1 /\ IsFresh(sessions[1])
    /\ inflight # <<>> /\ inflight[1].targetDeleted

\* C7: the sessions of the collection have pairwise distinct ids, and the
\* session that replaces a deleted only session has another id than the
\* deleted one.
C7_DistinctIds ==
    mounted =>
        /\ \A i, j \in 1..Len(sessions) : i # j => sessions[i].id # sessions[j].id
        /\ DeletedSole =>
              Len(sessions) = 1 /\ IsFresh(sessions[1]) /\ sessions[1].id # lastEvent.id

\* C2: once the mount effects have run, currentSessionId is the id of a
\* session of the collection.
C2_CurrentExists == mounted => currentSessionId \in SessionIds(sessions)

\* the current session has been deleted while another one remained
C2_Witness ==
    /\ mounted
    /\ lastEvent.op = "deleteSession" /\ lastEvent.id = lastEvent.current
    /\ lastEvent.count > 1 /\ lastEvent.id \notin SessionIds(sessions)
    /\ currentSessionId = sessions[1].id

\* the sessions of ss whose id is not id, in order
RECURSIVE Without(_, _)
Without(ss, id) ==
    IF ss = <<>> THEN <<>>
    ELSE IF Head(ss).id = id THEN Without(Tail(ss), id)
         ELSE <<Head(ss)>> \o Without(Tail(ss), id)

----------------------------------------------------------------------------
(* Steps of handleSendMessage *)

\* a call of handleSendMessage with a text that is not blank
SendStep(text) == HandleSendMessage(text) /\ ~IsBlank(text)

\* the call in flight number i resumes after its await
CompletionStep(i) ==
    \/ \E translated \in Translations : TranslationSucceeds(i, translated)
    \/ TranslationFails(i)

IsPrefix(a, b) == Len(a) <= Len(b) /\ SubSeq(b, 1, Len(a)) = a

\* new is old with one more message, sent by sender
GainsOne(old, new, sender) ==
    /\ Len(new.messages) = Len(old.messages) + 1
    /\ IsPrefix(old.messages, new.messages)
    /\ new.messages[Len(new.messages)].sender = sender
    /\ new.id = old.id

\* between two states of the mounted component the collection keeps its
\* sessions with their messages extended, or gets a fresh session in front,
\* or loses the sessions of one id, or is replaced by one fresh session
SessionsKept ==
    \/ /\ Len(sessions') = Len(sessions)
       /\ \A j \in 1..Len(sessions) :
             /\ sessions'[j].id = sessions[j].id
             /\ IsPrefix(sessions[j].messages, sessions'[j].messages)
    \/ /\ Len(sessions') = Len(sessions) + 1
       /\ IsFresh(sessions'[1])
       /\ Tail(sessions') = sessions
    \/ \E id \in SessionIds(sessions) :
          sessions' = Without(sessions, id) /\ sessions' # <<>>
    \/ Len(sessions') = 1 /\ IsFresh(sessions'[1])

\* the append of a message to the sessions whose id is target
AppendsTo(target) ==
    /\ Len(sessions') = Len(sessions)
    /\ \A j \in 1..Len(sessions) :
          IF sessions[j].id = target
          THEN /\ Len(sessions'[j].messages) = Len(sessions[j].messages) + 1
               /\ IsPrefix(sessions[j].messages, sessions'[j].messages)
          ELSE sessions'[j] = sessions[j]

\* C4: the messages of a session are only appended to: an append makes the
\* message sequence of the session one longer and keeps the earlier messages
\* in place, and in any two successive states of the mounted component the
\* message sequence of a session that is in both is a prefix of its later
\* message sequence.
C4_AppendOnly ==
    [][/\ (mounted /\ mounted') => SessionsKept
       /\ \A text \in InputTexts : SendStep(text) => AppendsTo(currentSessionId)
       /\ \A i \in 1..MaxInflight : CompletionStep(i) => AppendsTo(inflight[i].target)]_vars

\* a session holds a second message behind its first one, after a completion
C4_Witness ==
    /\ mounted
    /\ lastEvent.op \in {"translated", "translateFailed"}
    /\ \E j \in 1..Len(sessions) :
          /\ sessions[j].id = lastEvent.request.target
          /\ Len(sessions[j].messages) >= 2
          /\ sessions[j].messages[1].sender = USER
          /\ sessions[j].messages[Len(sessions[j].messages)].sender = AI

\* some session with the id target gains exactly one message, sent by sender
TargetGainsOne(target, sender) ==
    /\ Len(sessions') = Len(sessions)
    /\ \E j \in 1..Len(sessions) :
          sessions[j].id = target /\ GainsOne(sessions[j], sessions'[j], sender)

\* every session with the id target gains exactly one message, sent by
\* sender, and the other sessions are unchanged
EachTargetGainsOne(target, sender) ==
    /\ Len(sessions') = Len(sessions)
    /\ \A j \in 1..Len(sessions) :
          IF sessions[j].id = target
          THEN GainsOne(sessions[j], sessions'[j], sender)
          ELSE sessions'[j] = sessions[j]

\* C3 as claimed: a call of handleSendMessage with a text that is not blank
\* gives the session that is current at the call one new USER message, and
\* its completion gives that session one new AI message, whatever happened
\* while the request was in flight.
C3_OneUserOneAI ==
    [][/\ \A text \in InputTexts :
             SendStep(text) => TargetGainsOne(currentSessionId, USER)
       /\ \A i \in 1..MaxInflight :
             CompletionStep(i) => TargetGainsOne(inflight[i].target, AI)]_vars

\* C3 as amended: the call appends one USER message to every session whose
\* id is currentSessionId (there is one), and its completion appends one AI
\* message to every session whose id is that id then; when no session has
\* that id then, the collection is unchanged. No other session changes.
C3_OneUserOneAIWhileTargetExists ==
    [][/\ \A text \in InputTexts :
             SendStep(text) =>
                /\ currentSessionId \in SessionIds(sessions)
                /\ EachTargetGainsOne(currentSessionId, USER)
       /\ \A i \in 1..MaxInflight :
             CompletionStep(i) =>
                /\ EachTargetGainsOne(inflight[i].target, AI)
                /\ inflight[i].target \notin SessionIds(sessions) => sessions' = sessions]_vars

\* a request has completed after its target was deleted, and no session has
\* received an AI message
C3_Witness ==
    /\ mounted
    /\ lastEvent.op \in {"translated", "translateFailed"}
    /\ lastEvent.request.targetDeleted
    /\ lastEvent.request.target \notin SessionIds(sessions)
    /\ \A j \in 1..Len(sessions) : sessions[j].messages = <<>>

\* C5: when the sessions a call targets were deleted while its request was
\* in flight, its completion adds no message and leaves the collection and
\* currentSessionId unchanged.
C5_StaleAppendIsNoOp ==
    [][\A i \in 1..MaxInflight :
          (CompletionStep(i) /\ inflight[i].targetDeleted) =>
             sessions' = sessions /\ currentSessionId' = currentSessionId]_vars

\* the title the first USER message text gives a session
ExpectedTitle(text) ==
    IF Len(text) <= 30 THEN text ELSE SubSeq(text, 1, 30) \o <<46, 46, 46>>

\* C8: the title of a session is "New Conversation" while it has no message;
\* when its first message is a USER message with text t the title is t if t
\* has at most 30 code units and the first 30 code units of t followed by
\* "..." otherwise, however many messages were appended since; when its
\* first message is an AI message the title is still "New Conversation".
C8_Title ==
    \A j \in 1..Len(sessions) :
        LET s == sessions[j] IN
        IF s.messages = <<>> THEN s.title = NewConversation
        ELSE IF s.messages[1].sender = USER THEN s.title = ExpectedTitle(s.messages[1].text)
        ELSE s.title = NewConversation

\* a session whose first message has 31 code units and whose title is cut,
\* and a session whose first message has 30 code units and whose title is
\* that text, each with a later message
C8_Witness ==
    /\ mounted
    /\ \E j \in 1..Len(sessions) :
          /\ Len(sessions[j].messages) >= 2
          /\ sessions[j].messages[1].text = Text31
          /\ sessions[j].title = SubSeq(Text31, 1, 30) \o Ellipsis
          /\ Len(sessions[j].title) = 33
    /\ \E j \in 1..Len(sessions) :
          /\ Len(sessions[j].messages) >= 2
          /\ sessions[j].messages[1].text = Text30
          /\ sessions[j].title = Text30

\* the last message of a session
LastMessage(session) == session.messages[Len(session.messages)]

\* C9: when the translation call fails, every session with the target id
\* gains one AI message with the fallback text and no originalText, no other
\* session changes and isLoading becomes false; and whenever no request is in
\* flight isLoading is false.
C9_Failure ==
    /\ [](mounted /\ inflight = <<>> => ~isLoading)
    /\ [][\A i \in 1..MaxInflight :
             TranslationFails(i) =>
                /\ isLoading' = FALSE
                /\ EachTargetGainsOne(inflight[i].target, AI)
                /\ \A j \in 1..Len(sessions) :
                      sessions[j].id = inflight[i].target =>
                         /\ LastMessage(sessions'[j]).text = FallbackText
                         /\ OriginalText(LastMessage(sessions'[j])) = Undefined]_vars

\* the translation call has failed and its target session holds the
\* fallback message behind the USER message
C9_Witness ==
    /\ mounted /\ lastEvent.op = "translateFailed"
    /\ inflight = <<>> /\ ~isLoading
    /\ \E j \in 1..Len(sessions) :
          /\ sessions[j].id = lastEvent.request.target
          /\ Len(sessions[j].messages) = 2
          /\ sessions[j].messages[1].text = lastEvent.request.text
          /\ sessions[j].messages[2].text = FallbackText
          /\ sessions[j].messages[2].sender = AI

\* session holds a USER message with this text
HasUserMessage(session, text) ==
    \E k \in 1..Len(session.messages) :
        session.messages[k].sender = USER /\ session.messages[k].text = text

\* C10: the call of handleSendMessage with text t appends a USER message with
\* text t to the target sessions, and when the translation call succeeds
\* with result r every session with the target id gains an AI message whose
\* text is r and whose originalText is t; unless the target was removed
\* meanwhile, a session with the target id that holds the USER message gains
\* that AI message.
C10_Success ==
    [][/\ \A text \in InputTexts :
             SendStep(text) =>
                /\ EachTargetGainsOne(currentSessionId, USER)
                /\ \A j \in 1..Len(sessions) :
                      sessions[j].id = currentSessionId =>
                         /\ LastMessage(sessions'[j]).text = text
                         /\ OriginalText(LastMessage(sessions'[j])) = Undefined
                /\ inflight'[Len(inflight')].text = text
       /\ \A i \in 1..MaxInflight, r \in Translations :
             TranslationSucceeds(i, r) =>
                /\ EachTargetGainsOne(inflight[i].target, AI)
                /\ \A j \in 1..Len(sessions) :
                      sessions[j].id = inflight[i].target =>
                         /\ LastMessage(sessions'[j]).text = r
                         /\ OriginalText(LastMessage(sessions'[j])) = {inflight[i].text}
                /\ ~inflight[i].targetDeleted =>
                      \E j \in 1..Len(sessions) :
                         /\ sessions[j].id = inflight[i].target
                         /\ HasUserMessage(sessions[j], inflight[i].text)]_vars

\* the translation call has succeeded and its target session holds the USER
\* message with the text and then the AI message with the translation
C10_Witness ==
    /\ mounted /\ lastEvent.op = "translated"
    /\ \E j \in 1..Len(sessions) :
          /\ sessions[j].id = lastEvent.request.target
          /\ Len(sessions[j].messages) = 2
          /\ sessions[j].messages[1].sender = USER
          /\ sessions[j].messages[1].text = lastEvent.request.text
          /\ sessions[j].messages[2].sender = AI
          /\ sessions[j].messages[2].text = lastEvent.translated
          /\ OriginalText(sessions[j].messages[2]) = {lastEvent.request.text}

\* every code unit of text is white space
WhitespaceOnly(text) == \A k \in 1..Len(text) : text[k] \in {9, 10, 11, 12, 13, 32}

\* C11: handleSendMessage with a blank or whitespace-only text appends no
\* message, starts no request and leaves sessions, currentSessionId,
\* isLoading and the stored collection unchanged.
C11_BlankSendIsNoOp ==
    [][\A text \in InputTexts :
          (WhitespaceOnly(text) /\ HandleSendMessage(text)) =>
             UNCHANGED <<sessions, currentSessionId, isLoading, inflight, stored>>]_vars

\* a whitespace-only text has been sent while a request was in flight
C11_Witness ==
    /\ mounted
    /\ lastEvent.op = "handleSendMessage" /\ lastEvent.text = BlankText
    /\ Len(inflight) = 1 /\ isLoading
    /\ TotalMessages(sessions) = 1

\* the collection is ordered most recently created first
NewestFirst ==
    \A i, j \in 1..Len(sessions) : i < j => sessions[i].createdAt >= sessions[j].createdAt

\* C12: createNewSession puts one session with no messages and the title
\* "New Conversation" in front of the collection and makes it current; the
\* sessions that were there are unchanged behind it, so the collection stays
\* ordered most recently created first; the mount with nothing stored leaves
\* exactly one such session.
C12_Create ==
    /\ [](mounted => NewestFirst)
    /\ [][/\ CreateNewSession =>
                /\ Len(sessions') = Len(sessions) + 1
                /\ IsFresh(sessions'[1])
                /\ Tail(sessions') = sessions
                /\ currentSessionId' = sessions'[1].id
          /\ (Mount /\ stored.kind = "absent") =>
                /\ Len(sessions') = 1 /\ IsFresh(sessions'[1])
                /\ currentSessionId' = sessions'[1].id]_vars

\* a session has been created in front of a session that holds messages
C12_Witness ==
    /\ mounted /\ lastEvent.op = "createNewSession"
    /\ Len(sessions) = 2
    /\ IsFresh(sessions[1]) /\ currentSessionId = sessions[1].id
    /\ sessions[2].messages # <<>> /\ sessions[2].id # sessions[1].id

\* the messages the stored collection holds
StoredMessages ==
    IF stored.kind = "json" THEN TotalMessages(stored.value) ELSE 0

\* C13: after clearHistory the collection in memory is exactly one session,
\* which has no messages and is current, and the stored collection is that
\* one session: no message of before is left in memory or in storage.
C13_ClearAll ==
    [][ClearHistory =>
          /\ Len(sessions') = 1 /\ IsFresh(sessions'[1])
          /\ currentSessionId' = sessions'[1].id
          /\ TotalMessages(sessions') = 0
          /\ stored'.kind = "json" /\ Len(stored'.value) = 1
          /\ stored'.value[1].id = sessions'[1].id
          /\ stored'.value[1].messages = <<>>]_vars

\* the history has been cleared while a request sent from a session of
\* before was in flight
C13_Witness ==
    /\ mounted /\ lastEvent.op = "clearHistory"
    /\ Len(sessions) = 1 /\ IsFresh(sessions[1])
    /\ StoredMessages = 0
    /\ inflight # <<>> /\ inflight[1].targetDeleted

\* a and b are messages with the same properties
SameMessage(a, b) ==
    /\ a.id = b.id /\ a.text = b.text /\ a.sender = b.sender
    /\ a.timestamp = b.timestamp /\ OriginalText(a) = OriginalText(b)

\* a and b are sessions with the same properties and the same messages
SameSession(a, b) ==
    /\ a.id = b.id /\ a.title = b.title
    /\ a.createdAt = b.createdAt /\ a.updatedAt = b.updatedAt
    /\ Len(a.messages) = Len(b.messages)
    /\ \A k \in 1..Len(a.messages) : SameMessage(a.messages[k], b.messages[k])

\* a and b are the same sessions in the same order
SameCollection(a, b) ==
    Len(a) = Len(b) /\ \A j \in 1..Len(a) : SameSession(a[j], b[j])

\* C14: once a handler and the effects of its render have run, the value
\* stored under the sessions key is the whole collection in memory.
C14_StoredIsWhole ==
    mounted => stored.kind = "json" /\ SameCollection(stored.value, sessions)

\* two sessions, one with a USER and an AI message, are in memory and stored
C14_Witness ==
    /\ mounted /\ lastEvent.op = "translated"
    /\ Len(sessions) = 2 /\ TotalMessages(sessions) >= 2
    /\ stored.kind = "json" /\ Len(stored.value) = 2
    /\ StoredMessages = TotalMessages(sessions)

\* C15: the mount makes the stored list, when there is one and it is not
\* empty, the collection in memory, in its order and with its messages, and
\* its first session current; otherwise it makes one fresh session, which is
\* current. A reload keeps the stored value, which is the collection in
\* memory, so the mount that follows restores that collection.
C15_ReloadRoundTrip ==
    [][/\ Mount =>
             IF stored.kind = "json" /\ Len(stored.value) > 0
             THEN /\ SameCollection(sessions', stored.value)
                  /\ currentSessionId' = stored.value[1].id
             ELSE /\ Len(sessions') = 1 /\ IsFresh(sessions'[1])
                  /\ currentSessionId' = sessions'[1].id
       /\ Reload =>
             /\ stored' = stored
             /\ stored.kind = "json" /\ SameCollection(stored.value, sessions)]_vars

\* the mount has restored a single stored session with its two messages
C15_Witness ==
    /\ mounted /\ lastEvent.op = "mount"
    /\ Len(sessions) = 1
    /\ Len(sessions[1].messages) = 2
    /\ sessions[1].messages[2].sender = AI
    /\ OriginalText(sessions[1].messages[2]) = {sessions[1].messages[1].text}
    /\ currentSessionId = sessions[1].id

\* C18: isLoading is true whenever a translation request is in flight.
C18_LoadingWhileInFlight == mounted /\ inflight # <<>> => isLoading

\* the AI messages among the first n messages of a session
AICount(session, n) == Cardinality({k \in 1..n : session.messages[k].sender = AI})

\* the USER messages among the first n messages of a session
UserCount(session, n) == Cardinality({k \in 1..n : session.messages[k].sender = USER})

\* C20: in every prefix of the messages of a session the AI messages are at
\* most as many as the USER messages, and an AI message with originalText t
\* has a USER message with text t before it in the session.
C20_UserBeforeAI ==
    \A j \in 1..Len(sessions) :
        \A n \in 1..Len(sessions[j].messages) :
            /\ AICount(sessions[j], n) <= UserCount(sessions[j], n)
            /\ LET m == sessions[j].messages[n] IN
               (m.sender = AI /\ OriginalText(m) # Undefined) =>
                  \E k \in 1..(n - 1) :
                     /\ sessions[j].messages[k].sender = USER
                     /\ {sessions[j].messages[k].text} = OriginalText(m)

----------------------------------------------------------------------------
(* Settings and speech *)

SettingsFields == {"darkMode", "voiceEnabled", "preferredVoice", "animationsEnabled"}

\* the default of a field of the settings
DefaultOf(field) ==
    CASE field = "darkMode" -> FALSE
      [] field = "voiceEnabled" -> TRUE
      [] field = "preferredVoice" -> "en-US"
      [] field = "animationsEnabled" -> TRUE

\* C16: the settings loaded at mount have the four fields; a field that the
\* persisted blob has takes the persisted value, a field that it lacks takes
\* its default; an unparseable blob (and an absent one) yields the defaults.
C16_SettingsLoad ==
    [][Mount =>
         /\ SettingsFields \subseteq DOMAIN settings'
         /\ \A field \in SettingsFields :
               settings'[field] =
                  IF storedSettings.kind = "json" /\ field \in DOMAIN storedSettings.value
                  THEN storedSettings.value[field]
                  ELSE DefaultOf(field)
         /\ storedSettings.kind # "json" =>
               \A field \in SettingsFields : settings'[field] = DefaultOf(field)]_vars

\* the settings were loaded from a blob that has a field differing from its
\* default and lacks another
C16_Witness ==
    /\ mounted /\ lastEvent.op = "mount"
    /\ lastEvent.savedSettings.kind = "json"
    /\ DOMAIN lastEvent.savedSettings.value = {"darkMode", "preferredVoice"}
    /\ lastEvent.savedSettings.value["darkMode"] = TRUE
    /\ lastEvent.savedSettings.value["preferredVoice"] = "ur-PK"
    /\ settings = [darkMode |-> TRUE, voiceEnabled |-> TRUE, preferredVoice |-> "ur-PK",
                   animationsEnabled |-> TRUE]

\* C17: a translation that succeeds calls speak once, with the translated
\* text, if voiceEnabled is set when the translation arrives, and not at all
\* if it is not, whatever it was when the message was sent; the language tag
\* is ur-PK when the translated text has a code unit of the Urdu block and
\* en-US otherwise; a translation that fails never calls speak.
C17_Speak ==
    [][/\ \A i \in 1..MaxInflight, translated \in VoiceTranslations :
            TranslationSucceeds(i, translated) =>
               lastEvent'.spoken =
                  IF settings.voiceEnabled
                  THEN <<[text |-> translated,
                          lang |-> IF \E k \in 1..Len(translated) :
                                         translated[k] >= 1536 /\ translated[k] <= 1791
                                   THEN "ur-PK" ELSE "en-US"]>>
                  ELSE <<>>
       /\ \A i \in 1..MaxInflight : TranslationFails(i) => lastEvent'.spoken = <<>>]_vars

\* the sessions of the id target each gain the USER message text as their
\* last message, and the other sessions stay as they are
UserMessageGoesTo(target, text) ==
    /\ Len(sessions') = Len(sessions)
    /\ \A j \in 1..Len(sessions) :
          IF sessions[j].id = target
          THEN /\ GainsOne(sessions[j], sessions'[j], USER)
               /\ LastMessage(sessions'[j]).text = text
          ELSE sessions'[j] = sessions[j]

\* C19: the send that the recognition result starts appends its USER
\* message to the session that is current when the result is delivered,
\* and its AI message is bound for that session, whatever was created,
\* selected or deleted since startListening; the USER message of a
\* non-blank text is not lost.
C19_SpeechResultToCurrent ==
    [][\A text \in {Text30, BlankText} :
          (SpeechResult(text) /\ ~WhitespaceOnly(text)) =>
             /\ UserMessageGoesTo(currentSessionId, text)
             /\ TotalMessages(sessions') > TotalMessages(sessions)
             /\ inflight'[Len(inflight')].target = currentSessionId]_vars

====
